---- MODULE Spec2Model ----
(***************************************************************************)
(* Progressive-overload recommendation engine of gym-tracker               *)
(* (src/src/services/supabase.ts), the workout and user slices of its      *)
(* Redux store (src/src/store/slices), and the exercise card that feeds    *)
(* the engine and the store (src/src/components/workout).                  *)
(*                                                                         *)
(* Weights are fixed-point numbers counted in tenths of a unit (504 is     *)
(* 50.4 kg), so that logged weights and increments that are not multiples  *)
(* of 0.5 exist in the model.  Reps are integers.  A suggestion is a       *)
(* record that carries exactly the fields the code's object literal        *)
(* carries; an optional field that the code leaves out is absent from the  *)
(* record's DOMAIN.  The message is modelled by the name of its template.  *)
(* The JavaScript values NaN, Infinity and undefined are three reserved    *)
(* integers outside the range of every number the model computes; every    *)
(* comparison that JavaScript evaluates to false on them is guarded.       *)
(***************************************************************************)
EXTENDS Integers, Sequences, FiniteSets, TLC

VARIABLES lastSets, exercise, suggestion, metrics, workout, user, dispatched

vars == <<lastSets, exercise, suggestion, metrics, workout, user, dispatched>>

(***************************************************************************)
(* Bounds and input domains                                                *)
(***************************************************************************)
MaxLen == 3

\* longest sequence of actions dispatched to the store
MaxDispatch == 5

\* roundWeight's default precision 0.5, in tenths
Precision == 5

DefaultTargetSetsMax == 4

DefaultTargetSetsMin == 3

\* logged weights in tenths: 0, 50.4 and the invalid -1.0
ValidWeights == {0, 504}

InvalidWeights == {-10}

RepValues == {0, 1, 4, 6, 7}

\* weightIncrement in tenths: bodyweight, 2.5 and 100.0
Increments == {0, 25, 1000}

RepRanges == {<<2, 4>>, <<3, 4>>}

SetRanges == {<<1, 1>>, <<2, 2>>, <<1, 3>>}

WorkoutSet(w, r, warm, done) ==
  [weight |-> w, reps |-> r, isWarmup |-> warm, completed |-> done]

SetInputs ==
  {WorkoutSet(w, r, FALSE, TRUE) : w \in ValidWeights, r \in RepValues}
    \cup {WorkoutSet(w, 4, FALSE, TRUE) : w \in InvalidWeights}
    \cup {WorkoutSet(504, 7, TRUE, TRUE), WorkoutSet(504, 0, FALSE, FALSE)}

Exercise(type, inc, reps, sets) ==
  [progressionType |-> type, weightIncrement |-> inc,
   targetRepMin |-> reps[1], targetRepMax |-> reps[2],
   targetSetsMin |-> sets[1], targetSetsMax |-> sets[2]]

ExerciseInputs ==
  {Exercise(t, i, r, s) : t \in {"double", "triple"}, i \in Increments,
                          r \in RepRanges, s \in SetRanges}

\* a stored exercise that lacks targetSetsMin and targetSetsMax
ExerciseNoSetRange(type, inc, reps) ==
  [progressionType |-> type, weightIncrement |-> inc,
   targetRepMin |-> reps[1], targetRepMax |-> reps[2]]

ExerciseNoSetRangeInputs ==
  {ExerciseNoSetRange(t, i, r) : t \in {"double", "triple"}, i \in Increments,
                                 r \in RepRanges}

NoSuggestion == [action |-> "none"]

NoMetrics == [op |-> "none"]

NaN == 999997

Infinity == 999998

Undefined == 999999

\* Number.isFinite(x)
IsFinite(x) == x \notin {NaN, Infinity, Undefined}

(***************************************************************************)
(* Arithmetic helpers                                                      *)
(***************************************************************************)
\* Math.round(a / b) for b > 0: the nearest integer, halves rounded up
MathRound(a, b) == (2 * a + b) \div (2 * b)

Max(a, b) == IF a >= b THEN a ELSE b

Min(a, b) == IF a <= b THEN a ELSE b


roundWeightDown(weight) == (weight \div Precision) * Precision

roundWeightNone(weight) == weight

roundWeight(weight) == MathRound(weight, Precision) * Precision

RECURSIVE SumReps(_)
SumReps(sets) ==
  IF sets = <<>> THEN 0 ELSE Head(sets).reps + SumReps(Tail(sets))

IsValidSetNoFiniteCheck(s) == s.weight >= 0 /\ s.reps >= 0

IsValidSet(s) ==
  /\ IsFinite(s.weight) /\ s.weight >= 0
  /\ IsFinite(s.reps) /\ s.reps >= 0

getInvalidSets(sets) == SelectSeq(sets, LAMBDA s : ~IsValidSet(s))

CountWeight(sets, w) == Len(SelectSeq(sets, LAMBDA s : s.weight = w))


getMostCommonWeightLightest(workingSets) ==
  LET weights == {workingSets[i].weight : i \in 1..Len(workingSets)}
  IN  CHOOSE w \in weights :
        \A o \in weights :
          \/ CountWeight(workingSets, w) > CountWeight(workingSets, o)
          \/ /\ CountWeight(workingSets, w) = CountWeight(workingSets, o)
             /\ w <= o

getMostCommonWeight(workingSets) ==
  LET weights == {workingSets[i].weight : i \in 1..Len(workingSets)}
  IN  CHOOSE w \in weights :
        \A o \in weights :
          \/ CountWeight(workingSets, w) > CountWeight(workingSets, o)
          \/ /\ CountWeight(workingSets, w) = CountWeight(workingSets, o)
             /\ w >= o


NonWarmupKeepAll(sets) == sets

NonWarmup(sets) == SelectSeq(sets, LAMBDA s : ~s.isWarmup)


WorkingSetsUnfinished(sets) == SelectSeq(sets, LAMBDA s : ~s.isWarmup)

WorkingSets(sets) == SelectSeq(sets, LAMBDA s : ~s.isWarmup /\ s.completed)

AvgReps(workingSets) == MathRound(SumReps(workingSets), Len(workingSets))

AllHitMaxReps(workingSets, targetRepMax) ==
  \A i \in 1..Len(workingSets) : workingSets[i].reps >= targetRepMax


StrugglingInclusive(avgReps, targetRepMin) == 2 * avgReps <= targetRepMin

\* avgReps < targetRepMin / 2
Struggling(avgReps, targetRepMin) == 2 * avgReps < targetRepMin


OvershootInclusive(avgReps, targetRepMax) == 2 * avgReps >= 3 * targetRepMax

\* avgReps > targetRepMax * 1.5
Overshoot(avgReps, targetRepMax) == 2 * avgReps > 3 * targetRepMax


ReducedWeightNoFloor(lastWeight, weightIncrement) ==
  lastWeight - weightIncrement

\* Math.max(0, lastWeight - weightIncrement)
ReducedWeight(lastWeight, weightIncrement) ==
  Max(0, lastWeight - weightIncrement)


ExcessiveSetsInclusive(count, targetSetsMax) == count >= targetSetsMax

\* workingSets.length > targetSetsMax
ExcessiveSets(count, targetSetsMax) ==
  targetSetsMax # Undefined /\ count > targetSetsMax


CanAddSetInclusive(count, targetSetsMax) == count <= targetSetsMax

CanAddSetEarlyStop(count, targetSetsMax) == count + 1 < targetSetsMax

\* currentSetCount < targetSetsMax
CanAddSet(count, targetSetsMax) ==
  targetSetsMax # Undefined /\ count < targetSetsMax


NextSetCountSkip(count) == count + 2

\* currentSetCount + 1
NextSetCount(count) == count + 1


IsBodyweightNever(weightIncrement) == FALSE

\* weightIncrement === 0
IsBodyweight(weightIncrement) == weightIncrement = 0


NextTargetRepsNoStep(avgReps, targetRepMax) == Min(avgReps, targetRepMax)

NextTargetRepsUncapped(avgReps, targetRepMax) == avgReps + 1

\* Math.min(avgReps + 1, targetRepMax)
NextTargetReps(avgReps, targetRepMax) == Min(avgReps + 1, targetRepMax)

(***************************************************************************)
(* Double progression                                                      *)
(***************************************************************************)
DoubleSetsMax(ex) ==
  IF "targetSetsMax" \in DOMAIN ex THEN ex.targetSetsMax
                                   ELSE DefaultTargetSetsMax

DoubleDecide(workingSets, ex) ==
  LET targetRepMin == ex.targetRepMin
      targetRepMax == ex.targetRepMax
      weightIncrement == ex.weightIncrement
      lastWeight == getMostCommonWeight(workingSets)
      avgReps == AvgReps(workingSets)
      reducedWeight == ReducedWeight(lastWeight, weightIncrement)
      targetSetsMax == DoubleSetsMax(ex)
  IN  IF Struggling(avgReps, targetRepMin)
      THEN IF reducedWeight = 0 /\ lastWeight = 0
           THEN [action |-> "maintain", newWeight |-> 0,
                 targetReps |-> targetRepMin, message |-> "lighter_variation"]
           ELSE [action |-> "reduce_weight", newWeight |-> reducedWeight,
                 targetReps |-> targetRepMin, message |-> "too_heavy"]
      ELSE IF ExcessiveSets(Len(workingSets), targetSetsMax)
      THEN [action |-> "maintain", newWeight |-> lastWeight,
            targetReps |-> avgReps, message |-> "too_many_sets"]
      ELSE IF AllHitMaxReps(workingSets, targetRepMax)
      THEN IF Overshoot(avgReps, targetRepMax) /\ weightIncrement > 0
           THEN [action |-> "increase_weight",
                 newWeight |-> roundWeight(lastWeight + weightIncrement * 2),
                 newReps |-> targetRepMin, message |-> "crushing_it"]
           ELSE IF IsBodyweight(weightIncrement)
           THEN [action |-> "maintain", newWeight |-> lastWeight,
                 targetReps |-> targetRepMax, message |-> "bodyweight"]
           ELSE [action |-> "increase_weight",
                 newWeight |-> IF weightIncrement > 0
                               THEN roundWeight(lastWeight + weightIncrement)
                               ELSE lastWeight,
                 newReps |-> targetRepMin, message |-> "all_hit_max"]
      ELSE [action |-> "increase_reps", newWeight |-> lastWeight,
            targetReps |-> NextTargetReps(avgReps, targetRepMax),
            message |-> "keep_weight"]

getDoubleProgressionSuggestion(sets, ex) ==
  LET allSets == NonWarmup(sets)
      workingSets == WorkingSets(sets)
  IN  IF Len(workingSets) = 0
      THEN IF Len(allSets) > 0
           THEN [action |-> "maintain", message |-> "no_completed_sets"]
           ELSE [action |-> "maintain", message |-> "start_with_weight"]
      ELSE IF Len(getInvalidSets(workingSets)) > 0
      THEN [action |-> "maintain", message |-> "invalid_data"]
      ELSE DoubleDecide(workingSets, ex)

(***************************************************************************)
(* Triple progression                                                      *)
(***************************************************************************)
\* exercise.targetSetsMin, destructured without a default
TripleSetsMin(ex) ==
  IF "targetSetsMin" \in DOMAIN ex THEN ex.targetSetsMin ELSE Undefined

\* exercise.targetSetsMax, destructured without a default
TripleSetsMax(ex) ==
  IF "targetSetsMax" \in DOMAIN ex THEN ex.targetSetsMax ELSE Undefined

TripleDecide(workingSets, ex) ==
  LET targetRepMin == ex.targetRepMin
      targetRepMax == ex.targetRepMax
      targetSetsMin == TripleSetsMin(ex)
      targetSetsMax == TripleSetsMax(ex)
      weightIncrement == ex.weightIncrement
      lastWeight == getMostCommonWeight(workingSets)
      currentSetCount == Len(workingSets)
      avgReps == AvgReps(workingSets)
      reducedWeight == ReducedWeight(lastWeight, weightIncrement)
  IN  IF Struggling(avgReps, targetRepMin)
      THEN IF reducedWeight = 0 /\ lastWeight = 0
           THEN [action |-> "maintain", newSets |-> targetSetsMin,
                 targetReps |-> targetRepMin, message |-> "lighter_variation"]
           ELSE [action |-> "reduce_weight", newWeight |-> reducedWeight,
                 newSets |-> targetSetsMin, targetReps |-> targetRepMin,
                 message |-> "too_heavy"]
      ELSE IF ExcessiveSets(currentSetCount, targetSetsMax)
      THEN [action |-> "maintain", newWeight |-> lastWeight,
            newSets |-> targetSetsMax, targetReps |-> avgReps,
            message |-> "too_many_sets"]
      ELSE IF AllHitMaxReps(workingSets, targetRepMax)
      THEN IF CanAddSet(currentSetCount, targetSetsMax)
           THEN [action |-> "add_set", newWeight |-> lastWeight,
                 newSets |-> NextSetCount(currentSetCount),
                 newReps |-> targetRepMin, message |-> "add_a_set"]
           ELSE IF Overshoot(avgReps, targetRepMax) /\ weightIncrement > 0
           THEN [action |-> "increase_weight",
                 newWeight |-> roundWeight(lastWeight + weightIncrement * 2),
                 newSets |-> targetSetsMin, newReps |-> targetRepMin,
                 message |-> "crushing_it"]
           ELSE IF IsBodyweight(weightIncrement)
           THEN [action |-> "maintain", newWeight |-> lastWeight,
                 newSets |-> targetSetsMax, targetReps |-> targetRepMax,
                 message |-> "bodyweight"]
           ELSE [action |-> "increase_weight",
                 newWeight |-> roundWeight(lastWeight + weightIncrement),
                 newSets |-> targetSetsMin, newReps |-> targetRepMin,
                 message |-> "maxed_out"]
      ELSE [action |-> "increase_reps", newWeight |-> lastWeight,
            newSets |-> currentSetCount,
            targetReps |-> NextTargetReps(avgReps, targetRepMax),
            message |-> "keep_weight"]

getTripleProgressionSuggestion(sets, ex) ==
  LET allSets == NonWarmup(sets)
      workingSets == WorkingSets(sets)
      targetSetsMin == TripleSetsMin(ex)
  IN  IF Len(workingSets) = 0
      THEN IF Len(allSets) > 0
           THEN [action |-> "maintain", newSets |-> targetSetsMin,
                 newReps |-> ex.targetRepMin, message |-> "no_completed_sets"]
           ELSE [action |-> "maintain", newSets |-> targetSetsMin,
                 newReps |-> ex.targetRepMin, message |-> "start_with_sets"]
      ELSE IF Len(getInvalidSets(workingSets)) > 0
      THEN [action |-> "maintain", newSets |-> targetSetsMin,
            message |-> "invalid_data"]
      ELSE TripleDecide(workingSets, ex)

getProgressionSuggestion(sets, ex) ==
  IF ex.progressionType = "triple"
  THEN getTripleProgressionSuggestion(sets, ex)
  ELSE getDoubleProgressionSuggestion(sets, ex)

(***************************************************************************)
(* Support metrics                                                         *)
(***************************************************************************)
calculate1RMUncapped(weight, reps) ==
  IF ~IsFinite(weight) \/ ~IsFinite(reps) THEN 0
  ELSE IF weight < 0 \/ reps < 0 THEN 0
  ELSE IF reps = 0 THEN 0
  ELSE IF reps = 1 THEN weight
  ELSE MathRound(weight * (30 + reps), 300) * 10

\* weight in tenths; Math.round yields whole units, i.e. multiples of 10:
\* weight/10 * (1 + min(reps/30, 1)) = weight * (30 + min(reps, 30)) / 300
calculate1RM(weight, reps) ==
  IF ~IsFinite(weight) \/ ~IsFinite(reps) THEN 0
  ELSE IF weight < 0 \/ reps < 0 THEN 0
  ELSE IF reps = 0 THEN 0
  ELSE IF reps = 1 THEN weight
  ELSE MathRound(weight * (30 + Min(reps, 30)), 300) * 10

RECURSIVE SumVolume(_)
SumVolume(sets) ==
  IF sets = <<>> THEN 0
  ELSE Head(sets).weight * Head(sets).reps + SumVolume(Tail(sets))

calculateVolumeWithWarmups(sets) ==
  SumVolume(SelectSeq(sets, LAMBDA s : s.completed))

calculateVolume(sets) ==
  SumVolume(SelectSeq(sets, LAMBDA s : ~s.isWarmup /\ s.completed))

BeatsBestOrTies(set, best) ==
  calculate1RM(set.weight, set.reps) >= calculate1RM(best.weight, best.reps)

\* setRM > bestRM
BeatsBest(set, best) ==
  calculate1RM(set.weight, set.reps) > calculate1RM(best.weight, best.reps)

\* workingSets.reduce without an initial value
RECURSIVE ReduceBest(_, _)
ReduceBest(best, rest) ==
  IF rest = <<>> THEN best
  ELSE ReduceBest(IF BeatsBest(Head(rest), best) THEN Head(rest) ELSE best,
                  Tail(rest))

Null == [null |-> TRUE]

getBestSet(sets) ==
  LET workingSets == SelectSeq(sets, LAMBDA s : ~s.isWarmup /\ s.completed)
  IN  IF Len(workingSets) = 0 THEN Null
      ELSE ReduceBest(Head(workingSets), Tail(workingSets))

(***************************************************************************)
(* Unit conversion (src/src/utils/unitConversion.ts), on tenths of a unit  *)
(***************************************************************************)
\* a set stored without weightUnit (legacy data)
NoUnit == "undefined"

DEFAULT_WEIGHT_UNIT == "kg"

\* Math.round(kg * 2.20462 * 10) / 10
kgToLb(kg) == MathRound(kg * 220462, 100000)

\* Math.round(lb * 0.453592 * 10) / 10
lbToKg(lb) == MathRound(lb * 453592, 1000000)

convertWeight(weight, fromUnit, toUnit) ==
  IF fromUnit = toUnit THEN weight
  ELSE IF fromUnit = "kg" /\ toUnit = "lb" THEN kgToLb(weight)
  ELSE IF fromUnit = "lb" /\ toUnit = "kg" THEN lbToKg(weight)
  ELSE weight

\* storedUnit || DEFAULT_WEIGHT_UNIT, then convertWeight
getDisplayWeight(weight, storedUnit, displayUnit) ==
  convertWeight(weight,
                IF storedUnit # NoUnit THEN storedUnit ELSE DEFAULT_WEIGHT_UNIT,
                displayUnit)

\* set.weightUnit, an optional field
weightUnitOf(set) ==
  IF "weightUnit" \in DOMAIN set THEN set.weightUnit ELSE NoUnit

(***************************************************************************)
(* Workout slice (src/src/store/slices/workoutSlice.ts): reducers as       *)
(* functions from the slice state and the payload to the next slice state  *)
(***************************************************************************)
workoutInitialState == [workouts |-> <<>>, activeWorkout |-> Null]

\* Object.assign(target, updates), also used for assignments to fields
ObjectAssign(target, updates) ==
  [f \in DOMAIN target \cup DOMAIN updates |->
     IF f \in DOMAIN updates THEN updates[f] ELSE target[f]]

\* Array.prototype.find / findIndex on ids: the first index, 0 when none
FindIndexById(seq, id) ==
  LET idx == {i \in 1..Len(seq) : seq[i].id = id}
  IN  IF idx = {} THEN 0 ELSE CHOOSE i \in idx : \A j \in idx : i <= j

startWorkout(state, payload) == [state EXCEPT !.activeWorkout = payload]

\* Math.floor((Date.now() - new Date(date).getTime()) / 1000), in ms
Duration(now, date) == (now - date) \div 1000


endWorkoutPush(state, now) ==
  IF state.activeWorkout # Null
  THEN [workouts |->
          Append(state.workouts,
                 ObjectAssign(state.activeWorkout,
                              [completed |-> TRUE,
                               duration |->
                                 Duration(now, state.activeWorkout.date)])),
        activeWorkout |-> Null]
  ELSE state

endWorkout(state, now) ==
  IF state.activeWorkout # Null
  THEN [workouts |->
          <<ObjectAssign(state.activeWorkout,
                         [completed |-> TRUE,
                          duration |->
                            Duration(now, state.activeWorkout.date)])>>
            \o state.workouts,
        activeWorkout |-> Null]
  ELSE state

cancelWorkout(state) == [state EXCEPT !.activeWorkout = Null]

addSetToExercise(state, payload) ==
  IF state.activeWorkout = Null THEN state
  ELSE LET e == FindIndexById(state.activeWorkout.exercises,
                              payload.workoutExerciseId)
       IN  IF e = 0 THEN state
           ELSE [state EXCEPT !.activeWorkout.exercises[e].sets =
                                Append(@, payload.set)]

updateSet(state, payload) ==
  IF state.activeWorkout = Null THEN state
  ELSE LET e == FindIndexById(state.activeWorkout.exercises,
                              payload.workoutExerciseId)
       IN  IF e = 0 THEN state
           ELSE LET i == FindIndexById(state.activeWorkout.exercises[e].sets,
                                       payload.setId)
                IN  IF i = 0 THEN state
                    ELSE [state EXCEPT
                            !.activeWorkout.exercises[e].sets[i] =
                              ObjectAssign(@, payload.updates)]


RenumberFromZero(sets) ==
  [i \in 1..Len(sets) |-> [sets[i] EXCEPT !.setNumber = i - 1]]

\* exercise.sets.forEach((s, i) => { s.setNumber = i + 1; })
Renumber(sets) ==
  [i \in 1..Len(sets) |-> [sets[i] EXCEPT !.setNumber = i]]

deleteSet(state, payload) ==
  IF state.activeWorkout = Null THEN state
  ELSE LET e == FindIndexById(state.activeWorkout.exercises,
                              payload.workoutExerciseId)
       IN  IF e = 0 THEN state
           ELSE [state EXCEPT !.activeWorkout.exercises[e].sets =
                   Renumber(SelectSeq(@, LAMBDA s : s.id # payload.setId))]

(***************************************************************************)
(* User slice (src/src/store/slices/userSlice.ts): the personal records    *)
(* and the unit setting                                                    *)
(***************************************************************************)
userInitialState == [personalRecords |-> <<>>, units |-> "lb"]

\* state.user.settings = {...state.user.settings, ...action.payload}
updateSettings(state, payload) == [state EXCEPT !.units = payload.units]


BeatsRecordOrTies(value, existing) == value >= existing

\* action.payload.value > state.personalRecords[existingIndex].value
BeatsRecord(value, existing) == value > existing

addPersonalRecord(state, payload) ==
  LET same == {i \in 1..Len(state.personalRecords) :
                 /\ state.personalRecords[i].exerciseId = payload.exerciseId
                 /\ state.personalRecords[i].type = payload.type}
      existingIndex ==
        IF same = {} THEN 0 ELSE CHOOSE i \in same : \A j \in same : i <= j
  IN  IF existingIndex # 0
      THEN IF BeatsRecord(payload.value,
                          state.personalRecords[existingIndex].value)
           THEN [state EXCEPT !.personalRecords[existingIndex] = payload]
           ELSE state
      ELSE [state EXCEPT !.personalRecords = Append(@, payload)]

(***************************************************************************)
(* Exercise card and set row (src/src/components/workout), and the active  *)
(* workout screen's lookup of the previous session                         *)
(***************************************************************************)
\* JavaScript truthiness of a number
Truthy(x) == x # 0 /\ IsFinite(x)

\* the sets of the most recent workout of the history that has the exercise
getPreviousSets(workouts, exerciseId) ==
  LET has == {w \in 1..Len(workouts) :
                \E e \in 1..Len(workouts[w].exercises) :
                  workouts[w].exercises[e].exerciseId = exerciseId}
  IN  IF has = {} THEN <<>>
      ELSE LET w == CHOOSE i \in has : \A j \in has : i <= j
               es == workouts[w].exercises
               e == CHOOSE i \in 1..Len(es) :
                      /\ es[i].exerciseId = exerciseId
                      /\ \A j \in 1..Len(es) :
                           es[j].exerciseId = exerciseId => i <= j
           IN  SelectSeq(es[e].sets, LAMBDA s : ~s.isWarmup /\ s.completed)

\* previousSets?.length ? getProgressionSuggestion(previousSets, ...) : null
CardSuggestion(previousSets, ex) ==
  IF Len(previousSets) > 0 THEN getProgressionSuggestion(previousSets, ex)
                           ELSE Null

OptionalField(record, field) ==
  IF record # Null /\ field \in DOMAIN record THEN record[field] ELSE Undefined

\* workingSets.length + 1
WorkingSetNumber(sets) == Len(SelectSeq(sets, LAMBDA s : ~s.isWarmup)) + 1

handleAddSet(workoutExercise, cardSuggestion, ex, units, id) ==
  LET sets == workoutExercise.sets
      hasLast == Len(sets) > 0
      lastSet == sets[Len(sets)]
      newWeight == OptionalField(cardSuggestion, "newWeight")
      targetReps == OptionalField(cardSuggestion, "targetReps")
      defaultWeight ==
        IF hasLast
        THEN getDisplayWeight(lastSet.weight, weightUnitOf(lastSet), units)
        ELSE IF Truthy(newWeight) THEN newWeight ELSE 0
      reps ==
        IF hasLast /\ Truthy(lastSet.reps) THEN lastSet.reps
        ELSE IF Truthy(targetReps) THEN targetReps ELSE ex.targetRepMin
  IN  [id |-> id, workoutExerciseId |-> workoutExercise.id,
       setNumber |-> WorkingSetNumber(sets), weight |-> defaultWeight,
       weightUnit |-> units, reps |-> reps, isWarmup |-> FALSE,
       completed |-> FALSE]

handleAddWarmup(workoutExercise, units, id) ==
  LET sets == workoutExercise.sets
      working == SelectSeq(sets, LAMBDA s : ~s.isWarmup)
      warmupWeight ==
        IF Len(working) > 0
        THEN MathRound(getDisplayWeight(working[1].weight,
                                        weightUnitOf(working[1]), units),
                       20) * 10
        ELSE 0
  IN  [id |-> id, workoutExerciseId |-> workoutExercise.id, setNumber |-> 0,
       weight |-> warmupWeight, weightUnit |-> units, reps |-> 10,
       isWarmup |-> TRUE, completed |-> FALSE]

\* SetRow: onUpdate({ isWarmup: !set.isWarmup })
toggleWarmup(set) == [isWarmup |-> ~set.isWarmup]

\* the store before anything is dispatched
StoreIdle ==
  /\ workout = workoutInitialState
  /\ user = userInitialState
  /\ dispatched = <<>>

(***************************************************************************)
(* State machine: a caller assembles the last session's sets for one       *)
(* exercise and asks for a suggestion.                                     *)
(***************************************************************************)
Init ==
  /\ lastSets = <<>>
  /\ exercise \in ExerciseInputs
  /\ suggestion = NoSuggestion
  /\ metrics = NoMetrics
  /\ StoreIdle

LogSet ==
  /\ suggestion = NoSuggestion
  /\ Len(lastSets) < MaxLen
  /\ \E s \in SetInputs : lastSets' = Append(lastSets, s)
  /\ UNCHANGED <<exercise, suggestion, metrics, workout, user, dispatched>>

Suggest ==
  /\ suggestion = NoSuggestion
  /\ suggestion' = getProgressionSuggestion(lastSets, exercise)
  /\ UNCHANGED <<lastSets, exercise, metrics, workout, user, dispatched>>

Next == LogSet \/ Suggest

Spec == Init /\ [][Next]_vars

(***************************************************************************)
(* Analytics callers: the support metrics applied to a session's sets and  *)
(* calculate1RM applied to one weight and rep count.                       *)
(***************************************************************************)
MetricSetInputs ==
  {WorkoutSet(0, 4, FALSE, TRUE), WorkoutSet(0, 6, FALSE, TRUE),
   WorkoutSet(504, 1, FALSE, TRUE), WorkoutSet(504, 30, FALSE, TRUE),
   WorkoutSet(1000, 6, FALSE, TRUE), WorkoutSet(1200, 1, FALSE, TRUE),
   WorkoutSet(-10, 4, FALSE, TRUE),
   WorkoutSet(2000, 7, TRUE, TRUE), WorkoutSet(2000, 7, FALSE, FALSE)}

OneRMWeights == {0, 3, 504, 1000, -10, NaN, Infinity}

OneRMReps == {0, 1, 2, 15, 29, 30, 31, 45, -1, NaN, Infinity}

InitMetrics ==
  /\ lastSets = <<>>
  /\ exercise = Exercise("double", 25, <<2, 4>>, <<1, 3>>)
  /\ suggestion = NoSuggestion
  /\ metrics = NoMetrics
  /\ StoreIdle

LogMetricSet ==
  /\ metrics = NoMetrics
  /\ Len(lastSets) < MaxLen
  /\ \E s \in MetricSetInputs : lastSets' = Append(lastSets, s)
  /\ UNCHANGED <<exercise, suggestion, metrics, workout, user, dispatched>>

Calculate1RM ==
  /\ metrics = NoMetrics
  /\ \E w \in OneRMWeights, r \in OneRMReps :
       metrics' = [op |-> "calculate1RM", weight |-> w, reps |-> r,
                   result |-> calculate1RM(w, r)]
  /\ UNCHANGED <<lastSets, exercise, suggestion, workout, user, dispatched>>

CalculateVolume ==
  /\ metrics = NoMetrics
  /\ metrics' = [op |-> "calculateVolume", result |-> calculateVolume(lastSets)]
  /\ UNCHANGED <<lastSets, exercise, suggestion, workout, user, dispatched>>

GetBestSet ==
  /\ metrics = NoMetrics
  /\ metrics' = [op |-> "getBestSet", result |-> getBestSet(lastSets)]
  /\ UNCHANGED <<lastSets, exercise, suggestion, workout, user, dispatched>>

NextMetrics == LogMetricSet \/ Calculate1RM \/ CalculateVolume \/ GetBestSet

SpecMetrics == InitMetrics /\ [][NextMetrics]_vars

(***************************************************************************)
(* The same caller with an exercise that omits the set range.              *)
(***************************************************************************)
InitNoSetRange ==
  /\ lastSets = <<>>
  /\ exercise \in ExerciseNoSetRangeInputs
  /\ suggestion = NoSuggestion
  /\ metrics = NoMetrics
  /\ StoreIdle

SpecNoSetRange == InitNoSetRange /\ [][Next]_vars

(***************************************************************************)
(* The same caller with raw logged data: non-finite and negative numbers,  *)
(* and warmup and incomplete sets in every combination.                    *)
(***************************************************************************)
RawSetInputs ==
  {WorkoutSet(w, r, FALSE, TRUE) : w \in ValidWeights, r \in {0, 4}}
    \cup {WorkoutSet(w, 4, FALSE, TRUE) : w \in {-10, NaN, Infinity}}
    \cup {WorkoutSet(504, r, FALSE, TRUE) : r \in {-1, NaN, Infinity}}
    \cup {WorkoutSet(504, 7, TRUE, TRUE), WorkoutSet(504, 0, TRUE, FALSE),
          WorkoutSet(504, 0, FALSE, FALSE), WorkoutSet(NaN, 7, TRUE, TRUE),
          WorkoutSet(504, -1, FALSE, FALSE)}

RawExerciseInputs ==
  {Exercise(t, 25, <<2, 4>>, s) : t \in {"double", "triple"}, s \in SetRanges}

InitRaw ==
  /\ lastSets = <<>>
  /\ exercise \in RawExerciseInputs
  /\ suggestion = NoSuggestion
  /\ metrics = NoMetrics
  /\ StoreIdle

LogRawSet ==
  /\ suggestion = NoSuggestion
  /\ Len(lastSets) < MaxLen
  /\ \E s \in RawSetInputs : lastSets' = Append(lastSets, s)
  /\ UNCHANGED <<exercise, suggestion, metrics, workout, user, dispatched>>

NextRaw == LogRawSet \/ Suggest

SpecRaw == InitRaw /\ [][NextRaw]_vars

(***************************************************************************)
(* The same caller with micro-loading and a wide rep range: logged weights *)
(* 50.1 and 50.4, increments 0.1, 0.2 and 2.5, and a rep range 4-6.        *)
(***************************************************************************)
FineSetInputs ==
  {WorkoutSet(w, r, FALSE, TRUE) : w \in {501, 504}, r \in {2, 3, 6, 10}}

FineExerciseInputs ==
  {Exercise(t, i, <<4, 6>>, s) : t \in {"double", "triple"}, i \in {1, 2, 25},
                                 s \in {<<2, 2>>, <<1, 3>>}}

InitFine ==
  /\ lastSets = <<>>
  /\ exercise \in FineExerciseInputs
  /\ suggestion = NoSuggestion
  /\ metrics = NoMetrics
  /\ StoreIdle

LogFineSet ==
  /\ suggestion = NoSuggestion
  /\ Len(lastSets) < MaxLen
  /\ \E s \in FineSetInputs : lastSets' = Append(lastSets, s)
  /\ UNCHANGED <<exercise, suggestion, metrics, workout, user, dispatched>>

NextFine == LogFineSet \/ Suggest

SpecFine == InitFine /\ [][NextFine]_vars

(***************************************************************************)
(* Store: the screens dispatch actions to the Redux store; dispatched is   *)
(* the log of the actions dispatched so far.  Identifiers that the code    *)
(* draws with uuidv4 are fresh numbers taken from the length of the log.   *)
(***************************************************************************)
engineVars == <<lastSets, exercise, suggestion, metrics>>

InitStore ==
  /\ lastSets = <<>>
  /\ exercise = Exercise("double", 25, <<2, 4>>, <<1, 3>>)
  /\ suggestion = NoSuggestion
  /\ metrics = NoMetrics
  /\ StoreIdle

CanDispatch == Len(dispatched) < MaxDispatch

Dispatch(action) == dispatched' = Append(dispatched, action)

FreshId == Len(dispatched) + 1

\* new Date() at the start of a workout and Date.now() at its end, in ms
StartTimes == {0, 500}

EndTimes == {90000, 91000}

\* WorkoutListScreen: a new workout without exercises
NewWorkout(id, date, exercises) ==
  [id |-> id, date |-> date, completed |-> FALSE, exercises |-> exercises]

StartWorkout ==
  /\ CanDispatch
  /\ \E date \in StartTimes :
       LET payload == NewWorkout(FreshId, date, <<>>)
       IN  /\ workout' = startWorkout(workout, payload)
           /\ Dispatch([type |-> "startWorkout", payload |-> payload])
  /\ UNCHANGED <<engineVars, user>>

EndWorkout ==
  /\ CanDispatch
  /\ \E now \in EndTimes :
       /\ workout' = endWorkout(workout, now)
       /\ Dispatch([type |-> "endWorkout", now |-> now])
  /\ UNCHANGED <<engineVars, user>>

CancelWorkout ==
  /\ CanDispatch
  /\ workout' = cancelWorkout(workout)
  /\ Dispatch([type |-> "cancelWorkout"])
  /\ UNCHANGED <<engineVars, user>>

NextLifecycle == StartWorkout \/ EndWorkout \/ CancelWorkout

SpecLifecycle == InitStore /\ [][NextLifecycle]_vars

(***************************************************************************)
(* Personal records                                                        *)
(***************************************************************************)
RecordExercises == {"bench", "squat"}

RecordTypes == {"1rm", "maxReps"}

RecordValues == {90, 100, 110}

AddPersonalRecord ==
  /\ CanDispatch
  /\ \E e \in RecordExercises, t \in RecordTypes, v \in RecordValues :
       LET payload == [exerciseId |-> e, type |-> t, value |-> v,
                       date |-> FreshId]
       IN  /\ user' = addPersonalRecord(user, payload)
           /\ Dispatch([type |-> "addPersonalRecord", payload |-> payload])
  /\ UNCHANGED <<engineVars, workout>>

NextRecords == AddPersonalRecord

SpecRecords == InitStore /\ [][NextRecords]_vars

(***************************************************************************)
(* Sets of the active workout: a workout started from a routine with two   *)
(* exercises, and the exercise card's and set row's handlers               *)
(***************************************************************************)
UnknownId == "unknown"

UnknownSetId == 999

\* RoutinesScreen: one set per routine target set, numbered from 1
RoutineSet(id, workoutExerciseId, setNumber, units) ==
  [id |-> id, workoutExerciseId |-> workoutExerciseId,
   setNumber |-> setNumber, weight |-> 0, weightUnit |-> units, reps |-> 4,
   isWarmup |-> FALSE, completed |-> FALSE]

RoutineWorkout(id, units) ==
  [id |-> id, date |-> 0, completed |-> FALSE,
   exercises |->
     <<[id |-> "we1", exerciseId |-> "bench", sets |-> <<>>],
       [id |-> "we2", exerciseId |-> "squat",
        sets |-> <<RoutineSet(100 + id, "we2", 1, units)>>]>>]

StartRoutineWorkout ==
  /\ CanDispatch
  /\ LET payload == RoutineWorkout(FreshId, user.units)
     IN  /\ workout' = startWorkout(workout, payload)
         /\ Dispatch([type |-> "startWorkout", payload |-> payload])
  /\ UNCHANGED <<engineVars, user>>

ActiveExercises ==
  IF workout.activeWorkout = Null THEN <<>>
  ELSE workout.activeWorkout.exercises

\* ExerciseCard.handleAddSet, then ActiveWorkoutScreen.handleAddSet
AddSet ==
  /\ CanDispatch
  /\ \E e \in 1..Len(ActiveExercises) :
       LET workoutExercise == ActiveExercises[e]
           previousSets ==
             getPreviousSets(workout.workouts, workoutExercise.exerciseId)
           cardSuggestion == CardSuggestion(previousSets, exercise)
           payload ==
             [workoutExerciseId |-> workoutExercise.id,
              set |-> handleAddSet(workoutExercise, cardSuggestion, exercise,
                                   user.units, FreshId)]
       IN  /\ lastSets' = previousSets
           /\ suggestion' = cardSuggestion
           /\ workout' = addSetToExercise(workout, payload)
           /\ Dispatch([type |-> "addSetToExercise", payload |-> payload])
  /\ UNCHANGED <<exercise, metrics, user>>

\* ExerciseCard.handleAddWarmup on the first card
AddWarmup ==
  /\ CanDispatch
  /\ Len(ActiveExercises) > 0
  /\ LET workoutExercise == ActiveExercises[1]
         payload ==
           [workoutExerciseId |-> workoutExercise.id,
            set |-> handleAddWarmup(workoutExercise, user.units, FreshId)]
     IN  /\ workout' = addSetToExercise(workout, payload)
         /\ Dispatch([type |-> "addSetToExercise", payload |-> payload])
  /\ UNCHANGED <<engineVars, user>>

\* SetRow.toggleWarmup on a row of the first card
ToggleWarmup ==
  /\ CanDispatch
  /\ Len(ActiveExercises) > 0
  /\ \E i \in 1..Len(ActiveExercises[1].sets) :
       LET set == ActiveExercises[1].sets[i]
           payload == [workoutExerciseId |-> ActiveExercises[1].id,
                       setId |-> set.id, updates |-> toggleWarmup(set)]
       IN  /\ workout' = updateSet(workout, payload)
           /\ Dispatch([type |-> "updateSet", payload |-> payload])
  /\ UNCHANGED <<engineVars, user>>

\* deleteSet with any payload: a row of the first card, an unknown set id,
\* an unknown exercise id, with or without an active workout
DeleteSet ==
  /\ CanDispatch
  /\ \E workoutExerciseId \in {"we1", UnknownId},
        setId \in {UnknownSetId}
                    \cup (IF Len(ActiveExercises) > 0
                          THEN {ActiveExercises[1].sets[i].id :
                                  i \in 1..Len(ActiveExercises[1].sets)}
                          ELSE {}) :
       LET payload == [workoutExerciseId |-> workoutExerciseId,
                       setId |-> setId]
       IN  /\ workout' = deleteSet(workout, payload)
           /\ Dispatch([type |-> "deleteSet", payload |-> payload])
  /\ UNCHANGED <<engineVars, user>>

NextSets ==
  StartRoutineWorkout \/ AddSet \/ AddWarmup \/ ToggleWarmup \/ DeleteSet

SpecSets == InitStore /\ [][NextSets]_vars

(***************************************************************************)
(* Exercise card with a history: the persisted workouts are loaded, the    *)
(* unit setting is changed, a workout is started and sets are added        *)
(***************************************************************************)
StoredUnits == {"kg", "lb", NoUnit}

\* a completed set of an earlier session: 100.0 in its stored unit
HistorySet(unit, reps) ==
  LET set == [id |-> 201, workoutExerciseId |-> "pe1", setNumber |-> 1,
              weight |-> 1000, reps |-> reps, isWarmup |-> FALSE,
              completed |-> TRUE]
  IN  IF unit = NoUnit THEN set
      ELSE ObjectAssign(set, [weightUnit |-> unit])

PersistedHistories ==
  {<<[id |-> 0, date |-> 0, completed |-> TRUE, duration |-> 60,
      exercises |-> <<[id |-> "pe1", exerciseId |-> "bench",
                       sets |-> <<HistorySet(unit, reps)>>]>>]>> :
     unit \in StoredUnits, reps \in {3, 4}}

\* state.workouts = action.payload
setWorkouts(state, payload) == [state EXCEPT !.workouts = payload]

SetWorkouts ==
  /\ CanDispatch
  /\ \E payload \in PersistedHistories :
       /\ workout' = setWorkouts(workout, payload)
       /\ Dispatch([type |-> "setWorkouts", payload |-> payload])
  /\ UNCHANGED <<engineVars, user>>

\* SettingsScreen: dispatch(updateSettings({ units }))
UpdateSettings ==
  /\ CanDispatch
  /\ \E units \in {"kg", "lb"} :
       /\ user' = updateSettings(user, [units |-> units])
       /\ Dispatch([type |-> "updateSettings", payload |-> [units |-> units]])
  /\ UNCHANGED <<engineVars, workout>>

NextCard == SetWorkouts \/ UpdateSettings \/ StartRoutineWorkout \/ AddSet

SpecCard == InitStore /\ [][NextCard]_vars

(***************************************************************************)
(* Vocabulary of the properties                                            *)
(***************************************************************************)
Suggested == suggestion # NoSuggestion

Has(field) == field \in DOMAIN suggestion

WS == WorkingSets(lastSets)

WSCount == Len(WS)

AllValid == \A i \in 1..WSCount : WS[i].weight >= 0 /\ WS[i].reps >= 0

\* the working sets are non-empty and all valid
Analysed == Suggested /\ WSCount > 0 /\ AllValid

RepSum == SumReps(WS)

\* the integer r with r - 1/2 <= RepSum / WSCount < r + 1/2
RoundedAvg ==
  CHOOSE r \in 0..RepSum :
    /\ (2 * r - 1) * WSCount <= 2 * RepSum
    /\ 2 * RepSum < (2 * r + 1) * WSCount

Consensus == getMostCommonWeight(WS)

IsDouble == exercise.progressionType = "double"

IsTriple == exercise.progressionType = "triple"

AllAtMax == \A i \in 1..WSCount : WS[i].reps >= exercise.targetRepMax

IsStruggling == 2 * RoundedAvg < exercise.targetRepMin

IsOvershoot == 2 * RoundedAvg > 3 * exercise.targetRepMax

\* m is the multiple of 0.5 nearest to w (within a quarter unit of it)
IsNearestHalf(m, w) ==
  /\ m % Precision = 0
  /\ 2 * (IF m >= w THEN m - w ELSE w - m) <= Precision

Increment == exercise.weightIncrement

\* the struggling branch: reduce_weight, or the zero-floor maintain
StrugglingBranch ==
  \/ suggestion.action = "reduce_weight"
  \/ suggestion.action = "maintain" /\ suggestion.message = "lighter_variation"

\* the weight-increase step of either strategy
WeightStep ==
  /\ Analysed
  /\ ~IsStruggling
  /\ AllAtMax
  /\ IF IsTriple THEN WSCount = exercise.targetSetsMax
                 ELSE WSCount <= exercise.targetSetsMax

(***************************************************************************)
(* C1: in both strategies, with non-empty valid working sets, the          *)
(* struggling branch (reduce_weight or the zero-floor maintain) is taken   *)
(* if and only if round(sum of reps / count) < targetRepMin / 2; a rounded *)
(* average equal to targetRepMin / 2 never yields reduce_weight.           *)
(***************************************************************************)
C1_StrugglingThreshold ==
  Analysed =>
    /\ StrugglingBranch <=> 2 * RoundedAvg < exercise.targetRepMin
    /\ 2 * RoundedAvg = exercise.targetRepMin
         => suggestion.action # "reduce_weight"

C1_Witness ==
  /\ Analysed
  /\ 2 * RoundedAvg = exercise.targetRepMin
  /\ RepSum % WSCount # 0
  /\ suggestion.action = "increase_reps"

(***************************************************************************)
(* C2: Double strategy, normal weight increase: non-empty valid working    *)
(* sets, not struggling, count <= targetSetsMax, every set at or above     *)
(* targetRepMax, weightIncrement > 0 and rounded average <= 1.5 x          *)
(* targetRepMax give increase_weight with newWeight = consensus weight +   *)
(* weightIncrement rounded to the nearest 0.5 and newReps = targetRepMin.  *)
(***************************************************************************)
C2_DoubleNormalIncrease ==
  (/\ Analysed
   /\ IsDouble
   /\ ~IsStruggling
   /\ WSCount <= exercise.targetSetsMax
   /\ AllAtMax
   /\ Increment > 0
   /\ ~IsOvershoot)
  => /\ suggestion.action = "increase_weight"
     /\ Has("newWeight")
     /\ IsNearestHalf(suggestion.newWeight, Consensus + Increment)
     /\ Has("newReps")
     /\ suggestion.newReps = exercise.targetRepMin

C2_Witness ==
  /\ Analysed
  /\ IsDouble
  /\ suggestion.action = "increase_weight"
  /\ ~IsOvershoot
  /\ (Consensus + Increment) % Precision > 2
  /\ suggestion.newWeight > Consensus + Increment

(***************************************************************************)
(* C3: at the weight-increase step of either strategy with                 *)
(* weightIncrement > 0, a rounded average strictly above 1.5 x             *)
(* targetRepMax gives newWeight = round-to-0.5(consensus + 2 x increment); *)
(* a rounded average equal to 1.5 x targetRepMax gives the single          *)
(* increment.                                                              *)
(***************************************************************************)
C3_OvershootDoubleIncrement ==
  (WeightStep /\ Increment > 0) =>
    /\ suggestion.action = "increase_weight"
    /\ Has("newWeight")
    /\ IsOvershoot
         => IsNearestHalf(suggestion.newWeight, Consensus + 2 * Increment)
    /\ 2 * RoundedAvg = 3 * exercise.targetRepMax
         => IsNearestHalf(suggestion.newWeight, Consensus + Increment)

C3_Witness ==
  /\ WeightStep
  /\ Increment > 0
  /\ IsTriple
  /\ IsOvershoot
  /\ suggestion.message = "crushing_it"

(***************************************************************************)
(* C4: Triple strategy: valid working sets, not struggling, every set at   *)
(* or above targetRepMax and count < targetSetsMax give add_set with       *)
(* newSets = count + 1, newReps = targetRepMin and newWeight = consensus   *)
(* weight, also when the average overshoots 1.5 x targetRepMax.            *)
(***************************************************************************)
C4_TripleAddsOneSet ==
  (/\ Analysed
   /\ IsTriple
   /\ ~IsStruggling
   /\ AllAtMax
   /\ WSCount < exercise.targetSetsMax)
  => /\ suggestion.action = "add_set"
     /\ Has("newSets") /\ suggestion.newSets = WSCount + 1
     /\ Has("newReps") /\ suggestion.newReps = exercise.targetRepMin
     /\ Has("newWeight") /\ suggestion.newWeight = Consensus

C4_Witness ==
  /\ Analysed
  /\ IsTriple
  /\ IsOvershoot
  /\ suggestion.action = "add_set"
  /\ suggestion.newSets < exercise.targetSetsMax

(***************************************************************************)
(* C5: the Triple strategy returns increase_weight only if the working-set *)
(* count equals targetSetsMax and every working set has reps >=            *)
(* targetRepMax, and then newSets = targetSetsMin and newReps =            *)
(* targetRepMin.                                                           *)
(***************************************************************************)
C5_TripleWeightLast ==
  (Suggested /\ IsTriple /\ suggestion.action = "increase_weight") =>
    /\ WSCount = exercise.targetSetsMax
    /\ AllAtMax
    /\ Has("newSets") /\ suggestion.newSets = exercise.targetSetsMin
    /\ Has("newReps") /\ suggestion.newReps = exercise.targetRepMin

C5_Witness ==
  /\ Suggested
  /\ IsTriple
  /\ suggestion.action = "increase_weight"
  /\ exercise.targetSetsMin < exercise.targetSetsMax
  /\ WSCount = exercise.targetSetsMax

(***************************************************************************)
(* C6: in both strategies, with non-empty valid working sets that are not  *)
(* struggling, the result is the excessive-volume maintain (newWeight =    *)
(* consensus weight, targetReps = rounded average, Triple also newSets =   *)
(* targetSetsMax) if and only if count > targetSetsMax; with more than     *)
(* targetSetsMax sets the action is never increase_weight, add_set or      *)
(* increase_reps.                                                          *)
(***************************************************************************)
ExcessiveMaintain ==
  /\ suggestion.action = "maintain"
  /\ suggestion.message = "too_many_sets"
  /\ Has("newWeight") /\ suggestion.newWeight = Consensus
  /\ Has("targetReps") /\ suggestion.targetReps = RoundedAvg
  /\ IsTriple => Has("newSets") /\ suggestion.newSets = exercise.targetSetsMax

C6_ExcessiveVolume ==
  (Analysed /\ ~IsStruggling) =>
    /\ ExcessiveMaintain <=> WSCount > exercise.targetSetsMax
    /\ suggestion.message = "too_many_sets" => ExcessiveMaintain
    /\ WSCount > exercise.targetSetsMax =>
         suggestion.action \notin {"increase_weight", "add_set", "increase_reps"}

C6_Witness ==
  /\ Analysed
  /\ ~IsStruggling
  /\ AllAtMax
  /\ WSCount = exercise.targetSetsMax + 1
  /\ RepSum % WSCount # 0
  /\ suggestion.message = "too_many_sets"

(***************************************************************************)
(* C7: every reduce_weight suggestion has newWeight = max(0, consensus     *)
(* weight - weightIncrement), never negative; struggling at a consensus    *)
(* weight of 0 gives maintain (lighter variation), never reduce_weight.    *)
(***************************************************************************)
C7_ZeroFloor ==
  /\ (Suggested /\ suggestion.action = "reduce_weight") =>
       /\ Has("newWeight")
       /\ suggestion.newWeight >= 0
       /\ suggestion.newWeight =
            (IF Consensus > Increment THEN Consensus - Increment ELSE 0)
  /\ (Analysed /\ IsStruggling /\ Consensus = 0) =>
       /\ suggestion.action = "maintain"
       /\ suggestion.message = "lighter_variation"

C7_Witness ==
  /\ Suggested
  /\ suggestion.action = "reduce_weight"
  /\ Consensus > 0
  /\ Consensus < Increment
  /\ suggestion.newWeight = 0

(***************************************************************************)
(* C8: with weightIncrement = 0 neither strategy returns increase_weight;  *)
(* when all working sets reach targetRepMax (Triple: and the count equals  *)
(* targetSetsMax) the result is maintain with newWeight = consensus weight *)
(* and targetReps = targetRepMax (Triple also newSets = targetSetsMax),    *)
(* also when the average overshoots 1.5 x targetRepMax.                    *)
(***************************************************************************)
BodyweightMaintain ==
  /\ suggestion.action = "maintain"
  /\ Has("newWeight") /\ suggestion.newWeight = Consensus
  /\ Has("targetReps") /\ suggestion.targetReps = exercise.targetRepMax
  /\ IsTriple => Has("newSets") /\ suggestion.newSets = exercise.targetSetsMax

\* the claim as stated: no condition on the Double strategy's set count
C8_BodyweightAsStated ==
  (/\ Analysed
   /\ Increment = 0
   /\ AllAtMax
   /\ IsTriple => WSCount = exercise.targetSetsMax)
  => BodyweightMaintain

\* amended: the working-set count does not exceed targetSetsMax
C8_BodyweightNeverIncreases ==
  /\ (Suggested /\ Increment = 0) => suggestion.action # "increase_weight"
  /\ (/\ Analysed
      /\ Increment = 0
      /\ AllAtMax
      /\ WSCount <= exercise.targetSetsMax
      /\ IsTriple => WSCount = exercise.targetSetsMax)
     => BodyweightMaintain

C8_Witness ==
  /\ Analysed
  /\ Increment = 0
  /\ IsOvershoot
  /\ suggestion.message = "bodyweight"
  /\ Consensus > 0

(***************************************************************************)
(* C9: whenever either strategy returns increase_weight, newWeight is an   *)
(* exact multiple of 0.5.                                                  *)
(***************************************************************************)
C9_IncreaseIsHalfMultiple ==
  (Suggested /\ suggestion.action = "increase_weight") =>
    Has("newWeight") /\ suggestion.newWeight % Precision = 0

C9_Witness ==
  /\ Suggested
  /\ suggestion.action = "increase_weight"
  /\ Consensus % Precision # 0
  /\ suggestion.newWeight % Precision = 0

(***************************************************************************)
(* C10: whenever either strategy returns reduce_weight, newWeight is       *)
(* rounded to the nearest 0.5, i.e. is an exact multiple of 0.5.           *)
(***************************************************************************)
C10_ReduceIsHalfMultiple ==
  (Suggested /\ suggestion.action = "reduce_weight") =>
    Has("newWeight") /\ suggestion.newWeight % Precision = 0

(***************************************************************************)
(* C11: for every non-empty list of valid working sets, the weight the     *)
(* strategies base their suggestion on occurs among the working sets with  *)
(* the highest occurrence count, and among weights tied for the highest    *)
(* count it is the largest, whichever was logged first.                    *)
(***************************************************************************)
IsWorking(i) == lastSets[i].completed /\ ~lastSets[i].isWarmup

Occurrences(w) ==
  Cardinality({i \in 1..Len(lastSets) : IsWorking(i) /\ lastSets[i].weight = w})

\* the suggestions whose newWeight is the weight the strategy is based on
CarriesBaseWeight ==
  suggestion.message \in {"keep_weight", "too_many_sets", "bodyweight", "add_a_set"}

C11_ConsensusWeight ==
  (Analysed /\ CarriesBaseWeight) =>
    /\ Has("newWeight")
    /\ Occurrences(suggestion.newWeight) > 0
    /\ \A i \in 1..Len(lastSets) :
         IsWorking(i) =>
           \/ Occurrences(lastSets[i].weight) < Occurrences(suggestion.newWeight)
           \/ /\ Occurrences(lastSets[i].weight) = Occurrences(suggestion.newWeight)
              /\ lastSets[i].weight <= suggestion.newWeight

C11_Witness ==
  /\ Analysed
  /\ CarriesBaseWeight
  /\ WSCount = 2
  /\ WS[1].weight > WS[2].weight
  /\ suggestion.newWeight = WS[1].weight

(***************************************************************************)
(* C12: with no working sets both strategies return maintain; the start    *)
(* message is returned if and only if no sets were logged at all, the      *)
(* 'No completed sets' message if and only if at least one incomplete set  *)
(* was logged; Triple also returns newSets = targetSetsMin and newReps =   *)
(* targetRepMin.                                                           *)
(***************************************************************************)
StartMessage ==
  suggestion.message \in {"start_with_weight", "start_with_sets"}

NoCompletedMessage == suggestion.message = "no_completed_sets"

NoWorkingSets ==
  Suggested /\ \A i \in 1..Len(lastSets) : ~IsWorking(i)

TripleResetFields ==
  IsTriple =>
    /\ Has("newSets") /\ suggestion.newSets = exercise.targetSetsMin
    /\ Has("newReps") /\ suggestion.newReps = exercise.targetRepMin

\* the claim as stated: any logged set, warmups included, counts
C12_NoDataAsStated ==
  NoWorkingSets =>
    /\ suggestion.action = "maintain"
    /\ StartMessage <=> Len(lastSets) = 0
    /\ NoCompletedMessage <=> \E i \in 1..Len(lastSets) : ~lastSets[i].completed
    /\ TripleResetFields

\* amended: only non-warmup sets count as logged or as incomplete
C12_NoDataVersusUnfinished ==
  NoWorkingSets =>
    /\ suggestion.action = "maintain"
    /\ StartMessage <=> \A i \in 1..Len(lastSets) : lastSets[i].isWarmup
    /\ NoCompletedMessage <=>
         \E i \in 1..Len(lastSets) :
           ~lastSets[i].isWarmup /\ ~lastSets[i].completed
    /\ TripleResetFields

C12_Witness ==
  /\ NoWorkingSets
  /\ IsTriple
  /\ NoCompletedMessage
  /\ \E i \in 1..Len(lastSets) : lastSets[i].isWarmup /\ ~lastSets[i].completed
  /\ \E i \in 1..Len(lastSets) : ~lastSets[i].isWarmup

(***************************************************************************)
(* C13: if any working set has a negative or non-finite weight or reps,    *)
(* both strategies return maintain with the invalid-data message and no    *)
(* newWeight, newReps or targetReps (Triple only sets newSets =            *)
(* targetSetsMin), whatever the other sets are; a set with weight 0 and    *)
(* reps 0 is never treated as invalid.                                     *)
(***************************************************************************)
NonFinite == {NaN, Infinity}

BadNumber(x) == x \in NonFinite \/ x < 0

SomeWorkingSetInvalid ==
  \E i \in 1..Len(lastSets) :
    IsWorking(i) /\ (BadNumber(lastSets[i].weight) \/ BadNumber(lastSets[i].reps))

C13_InvalidDataFirst ==
  Suggested =>
    /\ SomeWorkingSetInvalid =>
         /\ suggestion.action = "maintain"
         /\ suggestion.message = "invalid_data"
         /\ ~Has("newWeight") /\ ~Has("newReps") /\ ~Has("targetReps")
         /\ IF IsTriple
            THEN Has("newSets") /\ suggestion.newSets = exercise.targetSetsMin
            ELSE ~Has("newSets")
    /\ ~SomeWorkingSetInvalid => suggestion.message # "invalid_data"

C13_Witness ==
  /\ Suggested
  /\ suggestion.message = "invalid_data"
  /\ \E i \in 1..Len(lastSets) :
       IsWorking(i) /\ lastSets[i].weight = Infinity
  /\ \E i \in 1..Len(lastSets) :
       IsWorking(i) /\ lastSets[i].weight = 0 /\ lastSets[i].reps = 0
  /\ Len(lastSets) > exercise.targetSetsMax

C13_ZeroSetValid ==
  /\ Suggested
  /\ Len(lastSets) = 1
  /\ IsWorking(1) /\ lastSets[1].weight = 0 /\ lastSets[1].reps = 0
  /\ suggestion.message = "lighter_variation"

(***************************************************************************)
(* C16: for every input with at least one completed non-warmup set,        *)
(* adding or removing warmup sets or incomplete sets, whatever their       *)
(* weight and reps, leaves the suggestion of both strategies unchanged.    *)
(***************************************************************************)
CompletedWork == SelectSeq(lastSets, LAMBDA s : s.completed /\ ~s.isWarmup)

C16_OnlyCompletedWorkCounts ==
  (Suggested /\ Len(CompletedWork) > 0) =>
    suggestion = getProgressionSuggestion(CompletedWork, exercise)

C16_Witness ==
  /\ Suggested
  /\ Len(CompletedWork) = 1
  /\ Len(lastSets) = 3
  /\ lastSets[1].isWarmup /\ lastSets[1].weight = NaN
  /\ ~lastSets[3].completed /\ lastSets[3].reps < 0
  /\ suggestion.action = "add_set"

(***************************************************************************)
(* C14: in both strategies, valid working sets that are not struggling,    *)
(* not more than targetSetsMax, with at least one set below targetRepMax   *)
(* give increase_reps with targetReps = min(rounded average + 1,           *)
(* targetRepMax) and newWeight = consensus weight (Triple also newSets =   *)
(* the working-set count).                                                 *)
(***************************************************************************)
C14_DefaultStep ==
  (/\ Analysed
   /\ ~IsStruggling
   /\ WSCount <= exercise.targetSetsMax
   /\ \E i \in 1..WSCount : WS[i].reps < exercise.targetRepMax)
  => /\ suggestion.action = "increase_reps"
     /\ Has("targetReps")
     /\ suggestion.targetReps =
          (IF RoundedAvg + 1 <= exercise.targetRepMax
           THEN RoundedAvg + 1 ELSE exercise.targetRepMax)
     /\ Has("newWeight") /\ suggestion.newWeight = Consensus
     /\ IF IsTriple THEN Has("newSets") /\ suggestion.newSets = WSCount
                    ELSE ~Has("newSets")

C14_Witness ==
  /\ Analysed
  /\ IsTriple
  /\ suggestion.action = "increase_reps"
  /\ RoundedAvg >= exercise.targetRepMax
  /\ suggestion.targetReps = exercise.targetRepMax
  /\ WSCount = 2

(***************************************************************************)
(* C15: for a config that omits targetSetsMin and targetSetsMax,           *)
(* getProgressionSuggestion returns, for every input and both progression  *)
(* types, exactly the suggestion it returns for the same config with       *)
(* targetSetsMin = 3 and targetSetsMax = 4.                                *)
(***************************************************************************)
ExerciseWithDefaults ==
  Exercise(exercise.progressionType, exercise.weightIncrement,
           <<exercise.targetRepMin, exercise.targetRepMax>>,
           <<DefaultTargetSetsMin, DefaultTargetSetsMax>>)

C15_SetRangeDefaults ==
  (Suggested /\ "targetSetsMax" \notin DOMAIN exercise) =>
    suggestion = getProgressionSuggestion(lastSets, ExerciseWithDefaults)

\* what does hold: the Double strategy applies the default targetSetsMax
C15_DoubleDefaults ==
  (Suggested /\ "targetSetsMax" \notin DOMAIN exercise /\ IsDouble) =>
    suggestion = getProgressionSuggestion(lastSets, ExerciseWithDefaults)

(***************************************************************************)
(* C17: for every finite weight w >= 0, fractional weights included, and   *)
(* every reps r >= 0, calculate1RM(w, r) <= 2 * w.                         *)
(***************************************************************************)
OneRMCalled == metrics.op = "calculate1RM"

ValidOneRMInput ==
  /\ OneRMCalled
  /\ metrics.weight \notin NonFinite /\ metrics.weight >= 0
  /\ metrics.reps \notin NonFinite /\ metrics.reps >= 0

C17_OneRMCap == ValidOneRMInput => metrics.result <= 2 * metrics.weight

\* what does hold: the estimate stays within half a unit above 2 * w
C17_OneRMCapRounded ==
  ValidOneRMInput => metrics.result <= 2 * metrics.weight + 5

(***************************************************************************)
(* C18: calculate1RM returns 0 when weight or reps is non-finite or        *)
(* negative, 0 when reps = 0, exactly the weight when reps = 1, and        *)
(* otherwise round(weight x (1 + min(reps/30, 1))), so for reps >= 30 the  *)
(* result is round(2 x weight).                                            *)
(***************************************************************************)
Dist(a, b) == IF a >= b THEN a - b ELSE b - a

\* n (tenths) is a whole number of units within half a unit of p / q tenths
IsRoundOf(n, p, q) == n % 10 = 0 /\ 2 * Dist(n * q, p) <= 10 * q

C18_OneRMCases ==
  OneRMCalled =>
    LET w == metrics.weight
        r == metrics.reps
    IN  /\ ~ValidOneRMInput => metrics.result = 0
        /\ (ValidOneRMInput /\ r = 0) => metrics.result = 0
        /\ (ValidOneRMInput /\ r = 1) => metrics.result = w
        /\ (ValidOneRMInput /\ r > 1 /\ r < 30) =>
             IsRoundOf(metrics.result, w * (30 + r), 30)
        /\ (ValidOneRMInput /\ r >= 30) => IsRoundOf(metrics.result, 2 * w, 1)

C18_Witness ==
  /\ ValidOneRMInput
  /\ metrics.reps > 30
  /\ metrics.weight % 10 # 0
  /\ metrics.result > 2 * metrics.weight

(***************************************************************************)
(* C19: getBestSet returns null if and only if the input has no completed  *)
(* non-warmup set; otherwise it returns a completed non-warmup set whose   *)
(* estimated 1RM is >= that of every other one, and among sets tied for    *)
(* the maximum the one that comes first in the input.                      *)
(***************************************************************************)
BestSetCalled == metrics.op = "getBestSet"

Estimate(i) == calculate1RM(lastSets[i].weight, lastSets[i].reps)

WorkingIndexes == {i \in 1..Len(lastSets) : IsWorking(i)}

C19_BestSet ==
  BestSetCalled =>
    /\ metrics.result = Null <=> WorkingIndexes = {}
    /\ WorkingIndexes # {} =>
         \E i \in WorkingIndexes :
           /\ metrics.result = lastSets[i]
           /\ \A j \in WorkingIndexes : Estimate(j) <= Estimate(i)
           /\ \A j \in WorkingIndexes : j < i => Estimate(j) < Estimate(i)

C19_Witness ==
  /\ BestSetCalled
  /\ Len(lastSets) = 3
  /\ lastSets[1].isWarmup
  /\ IsWorking(2) /\ IsWorking(3)
  /\ lastSets[2] # lastSets[3]
  /\ Estimate(2) = Estimate(3) /\ Estimate(2) > 0
  /\ Estimate(1) > Estimate(2)
  /\ metrics.result = lastSets[2]

(***************************************************************************)
(* C20: calculateVolume equals the sum of weight x reps over exactly the   *)
(* sets that are completed and not warmup; warmup and incomplete sets      *)
(* never contribute, and the volume of the empty list is 0.                *)
(***************************************************************************)
VolumeCalled == metrics.op = "calculateVolume"

RECURSIVE SumWeightTimesReps(_)
SumWeightTimesReps(indexes) ==
  IF indexes = {} THEN 0
  ELSE LET i == CHOOSE x \in indexes : TRUE
       IN  lastSets[i].weight * lastSets[i].reps
             + SumWeightTimesReps(indexes \ {i})

C20_Volume ==
  VolumeCalled =>
    /\ metrics.result = SumWeightTimesReps(WorkingIndexes)
    /\ Len(lastSets) = 0 => metrics.result = 0

C20_Witness ==
  /\ VolumeCalled
  /\ Len(lastSets) = 3
  /\ lastSets[1].isWarmup /\ lastSets[1].weight * lastSets[1].reps > 0
  /\ ~lastSets[2].completed /\ lastSets[2].weight * lastSets[2].reps > 0
  /\ IsWorking(3)
  /\ metrics.result = lastSets[3].weight * lastSets[3].reps
  /\ metrics.result > 0

(***************************************************************************)
(* C24: whenever the Triple strategy's action is not add_set, the Double   *)
(* strategy applied to the same sets and exercise returns the same action  *)
(* and the same newWeight: the same value, or absent in both.              *)
(***************************************************************************)
DoubleOnSameInput == getDoubleProgressionSuggestion(lastSets, exercise)

C24_DoubleTripleAgree ==
  (Suggested /\ IsTriple /\ suggestion.action # "add_set") =>
    /\ DoubleOnSameInput.action = suggestion.action
    /\ ("newWeight" \in DOMAIN DoubleOnSameInput) = Has("newWeight")
    /\ Has("newWeight") => DoubleOnSameInput.newWeight = suggestion.newWeight

\* outside the zero-floor maintain the two strategies do agree
C24_AgreeButZeroFloor ==
  (Suggested /\ IsTriple /\ suggestion.action # "add_set"
     /\ suggestion.message # "lighter_variation") =>
    /\ DoubleOnSameInput.action = suggestion.action
    /\ ("newWeight" \in DOMAIN DoubleOnSameInput) = Has("newWeight")
    /\ Has("newWeight") => DoubleOnSameInput.newWeight = suggestion.newWeight

C26_IncreaseIncreases ==
  (Analysed /\ Increment > 0 /\ suggestion.action = "increase_weight") =>
    suggestion.newWeight > Consensus

\* with an increment of at least a quarter unit the increase is real
C26_IncreaseFromQuarter ==
  (Analysed /\ 4 * Increment >= 10 /\ suggestion.action = "increase_weight") =>
    suggestion.newWeight > Consensus

(***************************************************************************)
(* C27: with weightIncrement >= 0, a reduce_weight suggestion's newWeight  *)
(* is strictly less than the consensus weight of the session.              *)
(***************************************************************************)
C27_ReductionReduces ==
  (Analysed /\ Increment >= 0 /\ suggestion.action = "reduce_weight") =>
    suggestion.newWeight < Consensus

\* with a positive increment the reduction is real
C27_ReductionWithIncrement ==
  (Analysed /\ Increment > 0 /\ suggestion.action = "reduce_weight") =>
    suggestion.newWeight < Consensus

(***************************************************************************)
(* C28: with targetRepMin < targetRepMax, an increase_reps suggestion's    *)
(* targetReps is at most targetRepMax and more than half of targetRepMin;  *)
(* it is at least targetRepMin exactly when the rounded average of the     *)
(* session is at least targetRepMin - 1.                                   *)
(***************************************************************************)
C28_RepsInRange ==
  (Suggested /\ exercise.targetRepMin < exercise.targetRepMax
     /\ suggestion.action = "increase_reps") =>
    /\ exercise.targetRepMin <= suggestion.targetReps
    /\ suggestion.targetReps <= exercise.targetRepMax

C28_RepsBounded ==
  (Suggested /\ exercise.targetRepMin < exercise.targetRepMax
     /\ suggestion.action = "increase_reps") =>
    /\ suggestion.targetReps <= exercise.targetRepMax
    /\ 2 * suggestion.targetReps > exercise.targetRepMin
    /\ (suggestion.targetReps >= exercise.targetRepMin)
         <=> (RoundedAvg >= exercise.targetRepMin - 1)

C28_Witness ==
  /\ Suggested
  /\ suggestion.action = "increase_reps"
  /\ suggestion.targetReps < exercise.targetRepMin
  /\ RoundedAvg = 2

(***************************************************************************)
(* Vocabulary of the store properties                                      *)
(***************************************************************************)
\* the action whose dispatch the step consists of
Dispatched == dispatched'[Len(dispatched')]

LastDispatched == dispatched[Len(dispatched)]

History == workout.workouts

Active == workout.activeWorkout

\* a and b are the same set up to its setNumber
SameButNumber(a, b) == [a EXCEPT !.setNumber = 0] = [b EXCEPT !.setNumber = 0]

(***************************************************************************)
(* C21: every endWorkout step with an active workout puts that workout,    *)
(* marked completed, in front of the unchanged history and clears          *)
(* activeWorkout; endWorkout without an active workout changes nothing;    *)
(* cancelWorkout clears activeWorkout, startWorkout replaces it, and       *)
(* neither changes the history.  Hence the history always lists the ended  *)
(* workouts most recently started first and every entry is completed.      *)
(***************************************************************************)
C21_EndStep ==
  Dispatched.type = "endWorkout" =>
    IF Active # Null
    THEN /\ Len(workout'.workouts) = Len(History) + 1
         /\ workout'.workouts[1].id = Active.id
         /\ workout'.workouts[1].exercises = Active.exercises
         /\ workout'.workouts[1].completed = TRUE
         /\ \A i \in 1..Len(History) : workout'.workouts[i + 1] = History[i]
         /\ workout'.activeWorkout = Null
    ELSE workout' = workout

C21_StartCancelStep ==
  /\ Dispatched.type = "cancelWorkout" =>
       workout'.activeWorkout = Null /\ workout'.workouts = History
  /\ Dispatched.type = "startWorkout" =>
       /\ workout'.activeWorkout = Dispatched.payload
       /\ workout'.workouts = History

C21_HistoryOrdered ==
  /\ \A i \in 1..Len(History) : History[i].completed = TRUE
  /\ \A i, j \in 1..Len(History) : i < j => History[i].id > History[j].id

C21_Lifecycle ==
  []C21_HistoryOrdered /\ [][C21_EndStep /\ C21_StartCancelStep]_vars

\* two workouts ended, one cancelled in between
C21_Witness ==
  /\ Len(History) = 2
  /\ Active = Null
  /\ LastDispatched.type = "endWorkout"
  /\ \E i \in 1..Len(dispatched) : dispatched[i].type = "cancelWorkout"

(***************************************************************************)
(* C22: after any sequence of addPersonalRecord actions from the empty     *)
(* list there is at most one record per (exerciseId, type) pair, one       *)
(* exactly when a record of the pair was added, and its value is the       *)
(* maximum value added for the pair; a payload whose value is not strictly *)
(* higher than the pair's record leaves the state unchanged, and no step   *)
(* modifies the record of another pair.                                    *)
(***************************************************************************)
Records == user.personalRecords

RecordsOf(e, t) ==
  {i \in 1..Len(Records) : Records[i].exerciseId = e /\ Records[i].type = t}

AddedValues(e, t) ==
  {dispatched[i].payload.value :
     i \in {k \in 1..Len(dispatched) :
              /\ dispatched[k].type = "addPersonalRecord"
              /\ dispatched[k].payload.exerciseId = e
              /\ dispatched[k].payload.type = t}}

C22_BestPerPair ==
  \A e \in RecordExercises, t \in RecordTypes :
    /\ Cardinality(RecordsOf(e, t)) <= 1
    /\ (RecordsOf(e, t) = {}) <=> (AddedValues(e, t) = {})
    /\ \A i \in RecordsOf(e, t) :
         /\ Records[i].value \in AddedValues(e, t)
         /\ \A v \in AddedValues(e, t) : v <= Records[i].value

C22_AddStep ==
  Dispatched.type = "addPersonalRecord" =>
    LET p == Dispatched.payload
    IN  /\ (\E i \in RecordsOf(p.exerciseId, p.type) :
              p.value <= Records[i].value) => user' = user
        /\ \A i \in 1..Len(Records) :
             (Records[i].exerciseId # p.exerciseId \/ Records[i].type # p.type)
               => user'.personalRecords[i] = Records[i]

C22_KeepOnlyBest == []C22_BestPerPair /\ [][C22_AddStep]_vars

\* a record was replaced by a higher value and then tied, next to a record
\* of another pair
C22_Witness ==
  /\ Len(Records) = 2
  /\ \E i \in 1..Len(Records) :
       /\ Records[i].value = 110
       /\ Records[i].date = 2
       /\ AddedValues(Records[i].exerciseId, Records[i].type) = {100, 110}
  /\ LastDispatched.payload.value = 110
  /\ LastDispatched.payload.date > 2
  /\ \E i \in 1..Len(Records) : Records[i].date = LastDispatched.payload.date - 1

(***************************************************************************)
(* C23: a deleteSet step on an exercise of the active workout removes the  *)
(* set with the given id, keeps the other sets in their order and numbers  *)
(* them 1..n; the other exercises and the history are unchanged; with no   *)
(* active workout or an unknown exercise id the state is unchanged.        *)
(***************************************************************************)
C23_DeleteStep ==
  Dispatched.type = "deleteSet" =>
    LET p == Dispatched.payload
        e == FindIndexById(ActiveExercises, p.workoutExerciseId)
    IN  IF Active = Null \/ e = 0 THEN workout' = workout
        ELSE LET old == ActiveExercises[e].sets
                 new == workout'.activeWorkout.exercises[e].sets
                 k == FindIndexById(old, p.setId)
             IN  /\ Len(new) = IF k = 0 THEN Len(old) ELSE Len(old) - 1
                 /\ \A i \in 1..Len(new) :
                      /\ new[i].setNumber = i
                      /\ new[i].id # p.setId
                      /\ SameButNumber(new[i],
                                       IF k = 0 \/ i < k THEN old[i]
                                                         ELSE old[i + 1])
                 /\ Len(workout'.activeWorkout.exercises)
                      = Len(ActiveExercises)
                 /\ \A j \in 1..Len(ActiveExercises) :
                      j # e => workout'.activeWorkout.exercises[j]
                                 = ActiveExercises[j]
                 /\ workout'.activeWorkout.id = Active.id
                 /\ workout'.workouts = History

C23_DeleteSetRenumbers == [][C23_DeleteStep]_vars

\* the first of three added sets was deleted: the two left are renumbered
C23_Witness ==
  /\ Len(dispatched) = 5
  /\ LastDispatched.type = "deleteSet"
  /\ LastDispatched.payload.workoutExerciseId = "we1"
  /\ LastDispatched.payload.setId = 2
  /\ \A i \in 2..4 :
       /\ dispatched[i].type = "addSetToExercise"
       /\ dispatched[i].payload.workoutExerciseId = "we1"
       /\ dispatched[i].payload.set.setNumber = i - 1
  /\ Len(ActiveExercises[1].sets) = 2
  /\ ActiveExercises[1].sets[1].id = 3
  /\ ActiveExercises[1].sets[1].setNumber = 1
  /\ ActiveExercises[1].sets[2].id = 4

(***************************************************************************)
(* C29: when the exercise card adds a set, the weights of the previous     *)
(* session that it passed to getProgressionSuggestion are expressed in the *)
(* display unit, and the newWeight of its suggestion is the one the        *)
(* display-unit weights give.                                              *)
(***************************************************************************)
InDisplayUnit(sets) ==
  [i \in 1..Len(sets) |->
     ObjectAssign(sets[i],
                  [weight |-> getDisplayWeight(sets[i].weight,
                                               weightUnitOf(sets[i]),
                                               user.units),
                   weightUnit |-> user.units])]

CardAddedSet ==
  /\ Len(dispatched) > 0
  /\ LastDispatched.type = "addSetToExercise"
  /\ Len(lastSets) > 0

C29_SuggestionInDisplayUnit ==
  CardAddedSet =>
    /\ \A i \in 1..Len(lastSets) :
         lastSets[i].weight = InDisplayUnit(lastSets)[i].weight
    /\ Has("newWeight") =>
         suggestion.newWeight
           = getProgressionSuggestion(InDisplayUnit(lastSets),
                                      exercise).newWeight

\* the card is right whenever the stored unit is the display unit
C29_SameUnitIsRight ==
  (CardAddedSet /\ \A i \in 1..Len(lastSets) :
                     weightUnitOf(lastSets[i]) = user.units) =>
    /\ \A i \in 1..Len(lastSets) :
         lastSets[i].weight = InDisplayUnit(lastSets)[i].weight
    /\ Has("newWeight") =>
         suggestion.newWeight
           = getProgressionSuggestion(InDisplayUnit(lastSets),
                                      exercise).newWeight

(***************************************************************************)
(* C30: in every exercise of the active workout the non-warmup sets carry  *)
(* setNumbers equal to their 1-based position among the non-warmup sets.   *)
(***************************************************************************)
WorkingNumbered(sets) ==
  LET working == SelectSeq(sets, LAMBDA s : ~s.isWarmup)
  IN  \A i \in 1..Len(working) : working[i].setNumber = i

C30_WorkingSetNumbering ==
  \A e \in 1..Len(ActiveExercises) : WorkingNumbered(ActiveExercises[e].sets)

\* the numbering is right as long as only working sets are added
C30_AddSetOnly ==
  (\A i \in 1..Len(dispatched) :
     /\ dispatched[i].type \in {"startWorkout", "addSetToExercise"}
     /\ dispatched[i].type = "addSetToExercise"
          => ~dispatched[i].payload.set.isWarmup)
    => C30_WorkingSetNumbering

====
